---- MODULE Spec2Model ----
(***************************************************************************)
(* Minimal-region discovery of SIMUTools-2024 (sapn/regions/regions.py)     *)
(* over a labelled transition system built with SATransitionSystem          *)
(* (sapn/objects/sa_transition_system.py).                                  *)
(*                                                                          *)
(* State and event names are strings in the program.  Here the non-empty    *)
(* state names are the integers 1..NumStates and the event names the        *)
(* integers 1..NumEvents, numbered in ascending (lexicographic) name order, *)
(* so that sorted() over names is the order of the integers.  EmptyName     *)
(* stands for the empty string.                                             *)
(*                                                                          *)
(* A marking (a Python dict state name -> multiplicity) is a function from  *)
(* the state-name set to Nat.  Every dict the search handles has its keys   *)
(* in ascending name order (the seeds are built with dict(sorted(...)) and  *)
(* the expansions iterate multiset.keys()), so list(m.values()) is the      *)
(* sequence of values in ascending key order: Values(m).                    *)
(*                                                                          *)
(* The iteration counter of the driver (iterations / niter) only feeds the  *)
(* diagnostics; it takes part in no condition and is not modelled.          *)
(***************************************************************************)
EXTENDS Integers, Sequences, FiniteSets, TLC

NumStates == 3
NumEvents == 2
MaxTransitions == 3
MaxK == 2
MaxTransitionsLive == 2
MaxTransitionsStep == 4
MaxBatch == 2
NumKeys == 2
NumPlaces == 2
NumNetTransitions == 1
MaxTokens == 2
MaxArcs == 2
MaxPlaceObjects == 3
MaxDictTransitions == 1

EmptyName == 0
StateNames == 1..NumStates
EventNames == 1..NumEvents
KValues == (0 - 1)..MaxK
KeyNames == 1..NumKeys

VARIABLES
    states,                      \* SATransitionSystem.states (by name)
    events,                      \* SATransitionSystem.events (by name)
    transitions,                 \* SATransitionSystem.transitions as <<from, event, to>>
    pc,                          \* "build", "outer", "inner", "done", "error"
    k,                           \* argument k of generate_all_minimal_regions_v1
    order,                       \* iteration order of the set get_event_names()
    candidates,                  \* P
    discovered_minimal_regions,  \* R
    explored_multisets,          \* M
    r,                           \* work list of multiset_expansion
    regions,                     \* the region list returned
    initial_states,              \* SATransitionSystem.initial_states (by name)
    call,                        \* the last direct call of a library function: its
                                 \* arguments as they are after the call, and its outcome
    heap,                        \* the Place objects created so far, by reference
    places,                      \* StructuralAdaptivePN.places: identifier -> reference
    pn_transitions               \* StructuralAdaptivePN.transitions: identifier ->
                                 \* Transition with its lists of Place references

ltsVars == <<states, events, transitions>>
searchVars == <<pc, k, order, candidates, discovered_minimal_regions,
                explored_multisets, r, regions>>
apiVars == <<initial_states, call>>
netVars == <<heap, places, pn_transitions>>
vars == <<states, events, transitions, pc, k, order, candidates,
          discovered_minimal_regions, explored_multisets, r, regions,
          initial_states, call, heap, places, pn_transitions>>

---------------------------------------------------------------------------
(* Generic helpers: Python built-ins used by the code.                     *)

Min(S) == CHOOSE x \in S : \A y \in S : x <= y
Max(S) == CHOOSE x \in S : \A y \in S : x >= y
Abs(x) == IF x < 0 THEN 0 - x ELSE x

\* the j-th smallest element of a finite set of integers (sorted(S)[j-1])
NthSmallest(S, j) == CHOOSE x \in S : Cardinality({y \in S : y < x}) = j - 1

\* F(a) with a evaluated once: a local variable assigned a and then used
Bind(a, F(_)) == CHOOSE y \in {F(x) : x \in {a}} : TRUE

\* the sub-list of s at the indices that satisfy P, in list order
KeepIndices(s, P(_)) ==
    Bind({i \in 1..Len(s) : P(i)}, LAMBDA idx :
         [j \in 1..Cardinality(idx) |-> s[NthSmallest(idx, j)]])

\* faulty variant of Pop: the element is read but not removed
Pop_without_removal(s, idx) == s

\* list.pop(idx): the list without its element at idx
Pop(s, idx) == [j \in 1..(Len(s) - 1) |-> IF j < idx THEN s[j] ELSE s[j + 1]]

\* all orders in which a set can be iterated
IterationOrders(S) ==
    {p \in [1..Cardinality(S) -> S] : \A i, j \in 1..Cardinality(S) : i # j => p[i] # p[j]}

\* list(m.values())
Values(m) == [j \in 1..Cardinality(DOMAIN m) |-> m[NthSmallest(DOMAIN m, j)]]

RECURSIVE SumSeq(_)
SumSeq(s) == IF s = <<>> THEN 0 ELSE s[1] + SumSeq(Tail(s))

\* sum(list(m.values()))
SumValues(m) == Bind(Values(m), LAMBDA l : SumSeq(l))

\* entries of explored_multisets: the driver appends dicts, the expansion lists
AsDict(m) == [type |-> "dict", items |-> m]
AsList(m) == [type |-> "list", items |-> Values(m)]

\* x in lst
InList(x, lst) == \E i \in 1..Len(lst) : lst[i] = x

---------------------------------------------------------------------------
(* SATransitionSystem                                                      *)

get_state_names == states
get_event_names == events
get_all_state_transitions == transitions
get_state_transition_by_event(event_name) == {st \in transitions : st[2] = event_name}

\* __add_state: an empty name is refused, a known name is left alone
add_state(S, state_name) ==
    IF state_name = EmptyName THEN S ELSE S \cup {state_name}

\* add_transition(event_name, from_state_name, to_state_name).  A triple
\* already present raises ValueError before anything is changed (no step).
add_transition(event_name, from_state_name, to_state_name) ==
    LET st == <<from_state_name, event_name, to_state_name>>
    IN  /\ pc = "build"
        /\ st \notin get_all_state_transitions
        /\ events' = events \cup {event_name}
        /\ states' = add_state(add_state(states, from_state_name), to_state_name)
        /\ transitions' = IF from_state_name \in states' /\ to_state_name \in states'
                          THEN transitions \cup {st}
                          ELSE transitions
        /\ <<states', events', transitions'>> # <<states, events, transitions>>
        /\ UNCHANGED searchVars
        /\ UNCHANGED <<apiVars, netVars>>

\* the transition system ts = [states, events, transitions] after one
\* iteration of the loop of add_transitions_batch on the triple
\* st = (from_state_name, event_name, to_state_name): add_transition is
\* called, and its ValueError on a triple already present is caught
batch_iteration(ts, st) ==
    IF st \in ts.transitions
    THEN ts
    ELSE LET new_states == add_state(add_state(ts.states, st[1]), st[3])
         IN  [states |-> new_states,
              events |-> ts.events \cup {st[2]},
              transitions |-> IF st[1] \in new_states /\ st[3] \in new_states
                              THEN ts.transitions \cup {st}
                              ELSE ts.transitions]

RECURSIVE batch_loop(_, _)
batch_loop(ts, state_transitions) ==
    IF state_transitions = <<>>
    THEN ts
    ELSE batch_loop(batch_iteration(ts, Head(state_transitions)), Tail(state_transitions))

\* add_transitions_batch(state_transitions)
add_transitions_batch(state_transitions) ==
    /\ pc = "build"
    /\ \E ts \in {batch_loop([states |-> states, events |-> events,
                               transitions |-> transitions], state_transitions)} :
          /\ states' = ts.states
          /\ events' = ts.events
          /\ transitions' = ts.transitions
    /\ <<states', events', transitions'>> # <<states, events, transitions>>
    /\ UNCHANGED searchVars
    /\ UNCHANGED <<apiVars, netVars>>

\* faulty variant of set_intial_state: the name is not looked up
set_intial_state_unchecked(state_name) ==
    /\ pc = "build"
    /\ initial_states' = initial_states \cup {state_name}
    /\ initial_states' # initial_states
    /\ UNCHANGED <<ltsVars, searchVars, netVars, call>>

\* set_intial_state(state_name): an unknown name prints an error and returns
\* False (no step)
set_intial_state(state_name) ==
    /\ pc = "build"
    /\ state_name \in get_state_names
    /\ initial_states' = initial_states \cup {state_name}
    /\ initial_states' # initial_states
    /\ UNCHANGED <<ltsVars, searchVars, netVars, call>>

---------------------------------------------------------------------------
(* regions.py: multiset algebra and LTS queries                            *)

get_excitation_set_by_event(event_name) ==
    [s \in get_state_names |->
        IF \E st \in get_all_state_transitions : st[2] = event_name /\ st[1] = s
        THEN 1 ELSE 0]

get_switching_set_by_event(event_name) ==
    [s \in get_state_names |->
        IF \E st \in get_all_state_transitions : st[2] = event_name /\ st[3] = s
        THEN 1 ELSE 0]

get_power_of_multiset(multiset) == Max({multiset[s] : s \in DOMAIN multiset})

\* the gradients of an event; the code builds a list in set-iteration order
\* and only ever takes set(), min() and max() of it
get_gradient_of_event(event_name, multiset) ==
    {multiset[st[3]] - multiset[st[1]] : st \in get_state_transition_by_event(event_name)}

is_subset(multiset_a, multiset_b) ==
    IF DOMAIN multiset_a # DOMAIN multiset_b
    THEN FALSE
    ELSE \A s \in DOMAIN multiset_a : multiset_a[s] <= multiset_b[s]

\* The multiset operations return a fresh dict, or None after the ValueError
\* they raise on unequal key sets is caught and printed inside the function.
\* A call is modelled by its frame on return: the value returned and the two
\* argument dicts as the call leaves them.
NoneValue == [kind |-> "None"]
DictValue(m) == [kind |-> "dict", value |-> m]
BoolValue(b) == [kind |-> "bool", value |-> b]

\* faulty variant of get_union_of_multisets: multiplicities are added
get_union_of_multisets_by_sum(multiset_a, multiset_b) ==
    [out |-> IF DOMAIN multiset_a # DOMAIN multiset_b
             THEN NoneValue
             ELSE DictValue([s \in DOMAIN multiset_a |-> multiset_a[s] + multiset_b[s]]),
     multiset_a |-> multiset_a, multiset_b |-> multiset_b]

get_union_of_multisets(multiset_a, multiset_b) ==
    [out |-> IF DOMAIN multiset_a # DOMAIN multiset_b
             THEN NoneValue
             ELSE DictValue([s \in DOMAIN multiset_a |->
                                Max({multiset_a[s], multiset_b[s]})]),
     multiset_a |-> multiset_a, multiset_b |-> multiset_b]

\* faulty variant of get_intersection_of_multisets: the result is written
\* into multiset_a
get_intersection_of_multisets_in_place(multiset_a, multiset_b) ==
    [out |-> IF DOMAIN multiset_a # DOMAIN multiset_b
             THEN NoneValue
             ELSE DictValue([s \in DOMAIN multiset_a |->
                                Min({multiset_a[s], multiset_b[s]})]),
     multiset_a |-> IF DOMAIN multiset_a # DOMAIN multiset_b
                    THEN multiset_a
                    ELSE [s \in DOMAIN multiset_a |-> Min({multiset_a[s], multiset_b[s]})],
     multiset_b |-> multiset_b]

get_intersection_of_multisets(multiset_a, multiset_b) ==
    [out |-> IF DOMAIN multiset_a # DOMAIN multiset_b
             THEN NoneValue
             ELSE DictValue([s \in DOMAIN multiset_a |->
                                Min({multiset_a[s], multiset_b[s]})]),
     multiset_a |-> multiset_a, multiset_b |-> multiset_b]

\* faulty variant of get_difference_of_multisets: the key sets are not
\* compared and the keys the two dicts share are used
get_difference_of_multisets_on_shared_keys(multiset_a, multiset_b) ==
    [out |-> DictValue([s \in DOMAIN multiset_a \cap DOMAIN multiset_b |->
                           Max({0, multiset_a[s] - multiset_b[s]})]),
     multiset_a |-> multiset_a, multiset_b |-> multiset_b]

get_difference_of_multisets(multiset_a, multiset_b) ==
    [out |-> IF DOMAIN multiset_a # DOMAIN multiset_b
             THEN NoneValue
             ELSE DictValue([s \in DOMAIN multiset_a |->
                                Max({0, multiset_a[s] - multiset_b[s]})]),
     multiset_a |-> multiset_a, multiset_b |-> multiset_b]

\* faulty variant of is_region: any() where all() is meant
is_region_any_event(multiset) ==
    \E e \in get_event_names : Cardinality(get_gradient_of_event(e, multiset)) = 1

is_region(multiset) ==
    \A e \in get_event_names : Cardinality(get_gradient_of_event(e, multiset)) = 1

is_preregion_of_event(event_name, multiset) ==
    is_region(multiset) /\ is_subset(get_excitation_set_by_event(event_name), multiset)

\* faulty variant of is_postregion_of_event: the excitation set is used
is_postregion_of_event_by_excitation(event_name, multiset) ==
    is_region(multiset) /\ is_subset(get_excitation_set_by_event(event_name), multiset)

is_postregion_of_event(event_name, multiset) ==
    is_region(multiset) /\ is_subset(get_switching_set_by_event(event_name), multiset)

is_trivial(multiset) == \A s \in DOMAIN multiset : multiset[s] >= 1

\* faulty variant of __get_gradient_for_binary_search: the midpoint is rounded up
get_gradient_for_binary_search_ceil(g_min, g_max) == (g_min + g_max + 1) \div 2

get_gradient_for_binary_search(g_min, g_max) == (g_min + g_max) \div 2

\* min() of an empty gradient list raises ValueError
illegal_events_raises(multiset) ==
    \E e \in get_event_names : get_gradient_of_event(e, multiset) = {}

\* list of (event, g_min, g_max, g_e) in ascending event-name order
get_illegal_events(multiset) ==
    Bind({e \in get_event_names : Cardinality(get_gradient_of_event(e, multiset)) # 1},
         LAMBDA ill :
            [j \in 1..Cardinality(ill) |->
                Bind(NthSmallest(ill, j), LAMBDA e :
                Bind(get_gradient_of_event(e, multiset), LAMBDA g :
                Bind(Min(g), LAMBDA g_min :
                Bind(Max(g), LAMBDA g_max :
                     <<e, g_min, g_max, get_gradient_for_binary_search(g_min, g_max)>>))))])

\* faulty variant of __get_event_gradient_for_expansion: the key is x[3]
\* instead of abs(x[3])
get_event_gradient_for_expansion_signed(tuples_list) ==
    Bind(Max({tuples_list[i][4] : i \in 1..Len(tuples_list)}), LAMBDA best :
         tuples_list[Min({i \in 1..Len(tuples_list) : tuples_list[i][4] = best})])

\* max(tuples_list, key=lambda x: abs(x[3])): the first maximal tuple
get_event_gradient_for_expansion(tuples_list) ==
    Bind(Max({Abs(tuples_list[i][4]) : i \in 1..Len(tuples_list)}), LAMBDA best :
         tuples_list[Min({i \in 1..Len(tuples_list) : Abs(tuples_list[i][4]) = best})])

\* faulty variant of get_delta_g: the gradient bound is added
get_delta_g_plus(g, multiset, event_name, state_name) ==
    LET max_values == {multiset[st[3]] - multiset[st[1]] + g :
                         st \in {t \in get_state_transition_by_event(event_name) : t[1] = state_name}}
    IN  IF max_values = {} THEN 0 ELSE Max({0, Max(max_values)})

get_delta_g(g, multiset, event_name, state_name) ==
    LET max_values == {multiset[st[3]] - multiset[st[1]] - g :
                         st \in {t \in get_state_transition_by_event(event_name) : t[1] = state_name}}
    IN  IF max_values = {} THEN 0 ELSE Max({0, Max(max_values)})

\* faulty variant of get_delta_G: the result is not kept from going below 0
get_delta_G_unclamped(g, multiset, event_name, state_name) ==
    LET max_values == {multiset[st[1]] - multiset[st[3]] + g :
                         st \in {t \in get_state_transition_by_event(event_name) : t[3] = state_name}}
    IN  IF max_values = {} THEN 0 ELSE Max(max_values)

get_delta_G(g, multiset, event_name, state_name) ==
    LET max_values == {multiset[st[1]] - multiset[st[3]] + g :
                         st \in {t \in get_state_transition_by_event(event_name) : t[3] = state_name}}
    IN  IF max_values = {} THEN 0 ELSE Max({0, Max(max_values)})

get_multiset_expansion_on_event_by_g(g, event_name, multiset) ==
    [key \in DOMAIN multiset |-> multiset[key] + get_delta_g(g, multiset, event_name, key)]

get_multiset_expansion_on_event_by_G(g, event_name, multiset) ==
    [key \in DOMAIN multiset |-> multiset[key] + get_delta_G(g, multiset, event_name, key)]

\* faulty variant of get_candidates: the event iterated last is skipped
get_candidates_skip_last(ord) ==
    [i \in 1..(2 * (Len(ord) - 1)) |->
        IF i <= Len(ord) - 1 THEN get_excitation_set_by_event(ord[i])
                             ELSE get_switching_set_by_event(ord[i - (Len(ord) - 1)])]

\* excitation sets, then switching sets, each in the iteration order of the
\* event-name set
get_candidates(ord) ==
    [i \in 1..(2 * Len(ord)) |->
        IF i <= Len(ord) THEN get_excitation_set_by_event(ord[i])
                         ELSE get_switching_set_by_event(ord[i - Len(ord)])]

\* faulty variant of __remove_duplicates: seen is never updated
remove_duplicates_seen_not_updated(list_of_multisets) == list_of_multisets

remove_duplicates(list_of_multisets) ==
    KeepIndices(list_of_multisets,
                LAMBDA i : \A j \in 1..(i - 1) : list_of_multisets[j] # list_of_multisets[i])

\* faulty variant of __has_subset_of_list: the arguments of is_subset are swapped
has_subset_of_list_swapped(multiset, lst_of_multisets) ==
    \E i \in 1..Len(lst_of_multisets) : is_subset(multiset, lst_of_multisets[i])

has_subset_of_list(multiset, lst_of_multisets) ==
    \E i \in 1..Len(lst_of_multisets) : is_subset(lst_of_multisets[i], multiset)

\* faulty variant of __remove_supersets: the marking itself is not filtered
\* out of the list it is compared with
remove_supersets_unfiltered(list_of_multisets) ==
    KeepIndices(list_of_multisets,
                LAMBDA i : ~ has_subset_of_list(list_of_multisets[i], list_of_multisets))

remove_supersets(list_of_multisets) ==
    KeepIndices(list_of_multisets,
                LAMBDA i : ~ has_subset_of_list(list_of_multisets[i],
                               SelectSeq(list_of_multisets,
                                         LAMBDA e : e # list_of_multisets[i])))

\* faulty variant of __is_valid_candidate: bound off by one
is_valid_candidate_off_by_one(kk, multiset) ==
    get_power_of_multiset(multiset) <= kk + 1 /\ ~ is_trivial(multiset)

is_valid_candidate(kk, multiset) ==
    get_power_of_multiset(multiset) <= kk /\ ~ is_trivial(multiset)

\* faulty variant of the dequeue index: the last index of smallest sum
argmin_sum_last(lst) ==
    Bind([i \in 1..Len(lst) |-> SumValues(lst[i])], LAMBDA sums :
         Max({i \in 1..Len(lst) : \A j \in 1..Len(lst) : sums[i] <= sums[j]}))

\* min(range(len(l)), key=sum) and max(range(len(l)), key=sum): first index
argmin_sum(lst) ==
    Bind([i \in 1..Len(lst) |-> SumValues(lst[i])], LAMBDA sums :
         Min({i \in 1..Len(lst) : \A j \in 1..Len(lst) : sums[i] <= sums[j]}))
argmax_sum(lst) ==
    Bind([i \in 1..Len(lst) |-> SumValues(lst[i])], LAMBDA sums :
         Min({i \in 1..Len(lst) : \A j \in 1..Len(lst) : sums[i] >= sums[j]}))

---------------------------------------------------------------------------
(* regions.py: multiset_expansion.  st is the frame of one call:           *)
(* [r, discovered, explored, raised].                                      *)

\* faulty variant of expansion_child: the expansion is looked up in explored
\* as a dict
expansion_child_dict_lookup(kk, st, i) ==
    IF InList(AsDict(i), st.explored)
    THEN st
    ELSE IF is_valid_candidate(kk, i)
         THEN IF is_region(i)
              THEN [st EXCEPT !.discovered = Append(@, i),
                              !.explored = Append(@, AsList(i))]
              ELSE [st EXCEPT !.r = Append(@, i)]
         ELSE [st EXCEPT !.explored = Append(@, AsList(i))]

\* body of "for i in [r_1, r_2]"
expansion_child(kk, st, i) ==
    IF InList(AsList(i), st.explored)
    THEN st
    ELSE IF is_valid_candidate(kk, i)
         THEN IF is_region(i)
              THEN [st EXCEPT !.discovered = Append(@, i),
                              !.explored = Append(@, AsList(i))]
              ELSE [st EXCEPT !.r = Append(@, i)]
         ELSE [st EXCEPT !.explored = Append(@, AsList(i))]

\* faulty variant of expand_on_event: the expansion r_2 is left out
expand_on_event_r_1_only(kk, st, r_hat, chosen) ==
    Bind(get_multiset_expansion_on_event_by_g(chosen[4], chosen[1], r_hat), LAMBDA r_1 :
         expansion_child(kk, st, r_1))

\* lines 987-1007: the two expansions of r_hat on the chosen event, then
\* "for i in [r_1, r_2]"
expand_on_event(kk, st, r_hat, chosen) ==
    Bind(get_multiset_expansion_on_event_by_g(chosen[4], chosen[1], r_hat), LAMBDA r_1 :
    Bind(get_multiset_expansion_on_event_by_G(chosen[4] + 1, chosen[1], r_hat), LAMBDA r_2 :
    Bind(expansion_child(kk, st, r_1), LAMBDA st_1 :
         expansion_child(kk, st_1, r_2))))

\* lines 979-985: the illegal event of r_hat is chosen; min() of an empty
\* gradient list and max() of an empty list of illegal events raise
expand_candidate(kk, st, r_hat) ==
    IF illegal_events_raises(r_hat)
    THEN [st EXCEPT !.raised = TRUE]
    ELSE Bind(get_illegal_events(r_hat), LAMBDA lst_non_constant_events :
              IF lst_non_constant_events = <<>>
              THEN [st EXCEPT !.raised = TRUE]
              ELSE Bind(get_event_gradient_for_expansion(lst_non_constant_events),
                        LAMBDA chosen : expand_on_event(kk, st, r_hat, chosen)))

\* faulty variant of expansion_iteration: the dequeued marking is not looked
\* up in explored
expansion_iteration_no_lookup(kk, st) ==
    Bind(argmax_sum(st.r), LAMBDA idx :
    Bind(st.r[idx], LAMBDA r_hat :
         Bind([st EXCEPT !.r = Pop(@, idx), !.explored = Append(@, AsList(r_hat))],
              LAMBDA marked : expand_candidate(kk, marked, r_hat))))

\* one iteration of "while r": lines 965-977, then the expansion
expansion_iteration(kk, st) ==
    Bind(argmax_sum(st.r), LAMBDA idx :
    Bind(st.r[idx], LAMBDA r_hat :
         IF InList(AsList(r_hat), st.explored)
         THEN [st EXCEPT !.r = Pop(@, idx)]
         ELSE Bind([st EXCEPT !.r = Pop(@, idx), !.explored = Append(@, AsList(r_hat))],
                   LAMBDA marked : expand_candidate(kk, marked, r_hat))))

RECURSIVE expansion_loop(_, _)
expansion_loop(kk, st) ==
    IF st.r = <<>> \/ st.raised THEN st ELSE expansion_loop(kk, expansion_iteration(kk, st))

multiset_expansion(kk, multiset, discovered, explored) ==
    expansion_loop(kk, [r |-> <<multiset>>, discovered |-> discovered,
                        explored |-> explored, raised |-> FALSE])

---------------------------------------------------------------------------
(* regions.py: generate_all_minimal_regions_v1                             *)

\* the seed list P
initial_candidates(ord) ==
    Bind(get_candidates(ord), LAMBDA all_seeds :
    Bind(remove_duplicates(all_seeds), LAMBDA unique_dicts :
         remove_supersets(unique_dicts)))

\* faulty variant of the minimality filter: duplicates removed only
minimality_filter_dedup_only(discovered) == remove_duplicates(discovered)

\* "Remove non-minimal regions", then __remove_duplicates
minimality_filter(discovered) ==
    Bind(KeepIndices(discovered,
                     LAMBDA i : ~ has_subset_of_list(discovered[i],
                                    SelectSeq(discovered, LAMBDA e : e # discovered[i]))),
         LAMBDA temp : remove_duplicates(temp))

\* a whole run as a function of k and the iteration order of the event names;
\* st is [candidates, discovered, explored, raised]
RECURSIVE driver_loop(_, _)
driver_loop(kk, st) ==
    IF st.candidates = <<>> \/ st.raised
    THEN st
    ELSE LET idx     == argmin_sum(st.candidates)
             r_tilde == st.candidates[idx]
             rest    == Pop(st.candidates, idx)
         IN  IF is_region(r_tilde)
             THEN IF ~ InList(r_tilde, st.discovered)
                  THEN driver_loop(kk, [st EXCEPT !.candidates = rest,
                                                  !.discovered = Append(@, r_tilde),
                                                  !.explored = Append(@, AsDict(r_tilde))])
                  ELSE driver_loop(kk, [st EXCEPT !.candidates = rest])
             ELSE LET res == multiset_expansion(kk, r_tilde, st.discovered, st.explored)
                  IN  driver_loop(kk, [candidates |-> rest, discovered |-> res.discovered,
                                       explored |-> res.explored, raised |-> res.raised])

generate_all_minimal_regions_v1(kk, ord) ==
    LET st == driver_loop(kk, [candidates |-> initial_candidates(ord), discovered |-> <<>>,
                               explored |-> <<>>, raised |-> FALSE])
    IN  [regions |-> minimality_filter(st.discovered), explored |-> st.explored,
         raised |-> st.raised]

---------------------------------------------------------------------------
(* The run of generate_all_minimal_regions_v1, one loop iteration a step.  *)

Init ==
    /\ states = {}
    /\ events = {}
    /\ transitions = {}
    /\ pc = "build"
    /\ k = 0
    /\ order = <<>>
    /\ candidates = <<>>
    /\ discovered_minimal_regions = <<>>
    /\ explored_multisets = <<>>
    /\ r = <<>>
    /\ regions = <<>>
    /\ initial_states = {}
    /\ call = [op |-> "none"]
    /\ heap = <<>>
    /\ places = <<>>
    /\ pn_transitions = <<>>

\* call of generate_all_minimal_regions_v1(k, ts): lines 887-902
Start(kk, ord) ==
    /\ pc = "build"
    /\ pc' = "outer"
    /\ k' = kk
    /\ order' = ord
    /\ candidates' = initial_candidates(ord)
    /\ discovered_minimal_regions' = <<>>
    /\ explored_multisets' = <<>>
    /\ r' = <<>>
    /\ regions' = <<>>
    /\ UNCHANGED ltsVars
    /\ UNCHANGED <<apiVars, netVars>>

\* one iteration of "while candidates" up to the call of multiset_expansion
OuterIteration ==
    /\ pc = "outer"
    /\ candidates # <<>>
    /\ \E idx \in {argmin_sum(candidates)} :
       LET r_tilde == candidates[idx]
       IN  /\ candidates' = Pop(candidates, idx)
           /\ IF is_region(r_tilde)
              THEN /\ IF ~ InList(r_tilde, discovered_minimal_regions)
                      THEN /\ discovered_minimal_regions' = Append(discovered_minimal_regions, r_tilde)
                           /\ explored_multisets' = Append(explored_multisets, AsDict(r_tilde))
                      ELSE UNCHANGED <<discovered_minimal_regions, explored_multisets>>
                   /\ UNCHANGED <<pc, r>>
              ELSE /\ pc' = "inner"
                   /\ r' = <<r_tilde>>
                   /\ UNCHANGED <<discovered_minimal_regions, explored_multisets>>
    /\ UNCHANGED <<k, order, regions>>
    /\ UNCHANGED ltsVars
    /\ UNCHANGED <<apiVars, netVars>>

\* one iteration of "while r" in multiset_expansion
InnerIteration ==
    /\ pc = "inner"
    /\ r # <<>>
    /\ \E st \in {expansion_iteration(k, [r |-> r, discovered |-> discovered_minimal_regions,
                                           explored |-> explored_multisets, raised |-> FALSE])} :
           /\ r' = st.r
           /\ discovered_minimal_regions' = st.discovered
           /\ explored_multisets' = st.explored
           /\ pc' = IF st.raised THEN "error" ELSE "inner"
    /\ UNCHANGED <<k, order, candidates, regions>>
    /\ UNCHANGED ltsVars
    /\ UNCHANGED <<apiVars, netVars>>

\* "while r" ends: multiset_expansion returns to the driver
InnerReturn ==
    /\ pc = "inner"
    /\ r = <<>>
    /\ pc' = "outer"
    /\ UNCHANGED <<k, order, candidates, discovered_minimal_regions, explored_multisets,
                   r, regions>>
    /\ UNCHANGED ltsVars
    /\ UNCHANGED <<apiVars, netVars>>

\* "while candidates" ends: minimality filter and return, lines 933-951
Finish ==
    /\ pc = "outer"
    /\ candidates = <<>>
    /\ regions' = minimality_filter(discovered_minimal_regions)
    /\ pc' = "done"
    /\ UNCHANGED <<k, order, candidates, discovered_minimal_regions, explored_multisets, r>>
    /\ UNCHANGED ltsVars
    /\ UNCHANGED <<apiVars, netVars>>

AddTransition ==
    /\ Cardinality(transitions) < MaxTransitions
    /\ \E e \in EventNames, f \in StateNames \cup {EmptyName}, t \in StateNames \cup {EmptyName} :
          add_transition(e, f, t)

Synthesize ==
    \E kk \in KValues, ord \in IterationOrders(events) : Start(kk, ord)

Next ==
    \/ AddTransition
    \/ Synthesize
    \/ OuterIteration
    \/ InnerIteration
    \/ InnerReturn
    \/ Finish

Spec == Init /\ [][Next]_vars

\* Termination is checked over the transition systems of at most
\* MaxTransitionsLive transitions.  The search is sequential code: once called
\* it keeps running.
AddTransitionLive ==
    /\ Cardinality(transitions) < MaxTransitionsLive
    /\ AddTransition

NextLive ==
    \/ AddTransitionLive
    \/ Synthesize
    \/ OuterIteration
    \/ InnerIteration
    \/ InnerReturn
    \/ Finish

FairSpec ==
    /\ Init
    /\ [][NextLive]_vars
    /\ WF_vars(OuterIteration \/ InnerIteration \/ InnerReturn \/ Finish)

---------------------------------------------------------------------------
(* Properties of the returned region list                                  *)

\* a marking is a region: all arcs of an event have the same m(to) - m(from)
UniformGradients(m) ==
    \A e \in events : \A t1, t2 \in {t \in transitions : t[2] = e} :
        m[t1[3]] - m[t1[1]] = m[t2[3]] - m[t2[1]]

Leq(a, b) == \A s \in DOMAIN a : a[s] <= b[s]
IsZero(m) == \A s \in DOMAIN m : m[s] = 0
IsTrivial(m) == \A s \in DOMAIN m : m[s] >= 1
KBoundedMarkings(kk) == [states -> 0..kk]

\* m contains the excitation or the switching indicator of some event
ContainsSeed(m) ==
    \E e \in events : \/ Leq(get_excitation_set_by_event(e), m)
                      \/ Leq(get_switching_set_by_event(e), m)

\* regions that are neither zero nor trivial, and the minimal ones among them
ProperRegions(kk) ==
    {m \in KBoundedMarkings(kk) : UniformGradients(m) /\ ~ IsZero(m) /\ ~ IsTrivial(m)}
MinimalRegions(kk) ==
    {m \in ProperRegions(kk) : ~ \E o \in ProperRegions(kk) : o # m /\ Leq(o, m)}

EveryEventLabelsATransition == \A e \in events : \E t \in transitions : t[2] = e
Returned == pc = "done"
FoundByExpansion(m) == InList(AsList(m), explored_multisets)
FoundAsSeed(m) == InList(AsDict(m), explored_multisets)

\* C1: for k >= 1 every returned marking is a region: for each event all
\* arcs labelled with it have the same value m(to) - m(from).
C1_ReturnedAreRegions ==
    (Returned /\ k >= 1) => \A i \in 1..Len(regions) : UniformGradients(regions[i])

C1_Witness ==
    /\ Returned /\ k >= 1
    /\ \E i \in 1..Len(regions) : FoundByExpansion(regions[i])
    /\ \E i \in 1..Len(regions) : FoundAsSeed(regions[i])

\* C2: for k >= 1 every returned marking has maximum multiplicity <= k,
\* seeds accepted by the outer loop included.
C2_ReturnedAreKBounded ==
    (Returned /\ k >= 1) =>
        \A i \in 1..Len(regions) : \A s \in DOMAIN regions[i] : regions[i][s] <= k

C2_Witness ==
    /\ Returned /\ k = 1
    /\ \E i \in 1..Len(regions) : FoundAsSeed(regions[i])
    /\ \E i \in 1..Len(explored_multisets) :
          /\ explored_multisets[i].type = "list"
          /\ \E j \in 1..Len(explored_multisets[i].items) : explored_multisets[i].items[j] > k

\* C3: for k >= 1 no returned marking is trivial (every multiplicity >= 1),
\* seeds accepted by the outer loop included.
C3_NoReturnedTrivial ==
    (Returned /\ k >= 1) => \A i \in 1..Len(regions) : ~ IsTrivial(regions[i])

\* C4: the returned list is an antichain without duplicates: no two entries
\* are equal and none is pointwise <= another.
C4_ReturnedAntichain ==
    Returned =>
        \A i, j \in 1..Len(regions) :
            i # j => (regions[i] # regions[j] /\ ~ Leq(regions[j], regions[i]))

C4_Witness ==
    /\ Returned
    /\ Len(regions) >= 2
    /\ Len(discovered_minimal_regions) > Len(regions)

C6_SeedRelativeCompleteness ==
    (Returned /\ k >= 1) =>
        \A m \in KBoundedMarkings(k) :
            (UniformGradients(m) /\ ~ IsTrivial(m) /\ ContainsSeed(m)) =>
                \E i \in 1..Len(regions) : Leq(regions[i], m)

C6_Witness ==
    /\ Returned /\ k >= 1
    /\ Len(initial_candidates(order)) < Len(remove_duplicates(get_candidates(order)))
    /\ \E i \in 1..Len(explored_multisets) : explored_multisets[i].type = "list"
    /\ \E m \in KBoundedMarkings(k) :
          /\ UniformGradients(m) /\ ~ IsTrivial(m) /\ ContainsSeed(m)
          /\ ~ InList(m, regions)

\* C7: when every event labels a transition, the run terminates for every k:
\* the outer loop empties Candidates and returns, and every call of the
\* expansion empties its work list.
C7_Terminates ==
    /\ []((pc \in {"outer", "inner"} /\ EveryEventLabelsATransition) => <>(pc = "done"))
    /\ []((pc = "inner" /\ EveryEventLabelsATransition) => <>(pc = "inner" /\ r = <<>>))

C7_Witness ==
    /\ Returned /\ EveryEventLabelsATransition
    /\ candidates = <<>> /\ r = <<>>
    /\ \E i \in 1..Len(explored_multisets) : explored_multisets[i].type = "list"

\* C8: the returned set of regions does not depend on the order in which the
\* event-name set is iterated when the seed list is built.
SetOf(lst) == {lst[i] : i \in 1..Len(lst)}
C8_DeterministicAsSet ==
    Returned =>
        \A ord \in IterationOrders(events) :
            LET other == generate_all_minimal_regions_v1(k, ord)
            IN  ~ other.raised /\ SetOf(other.regions) = SetOf(regions)

C8_Witness ==
    /\ Returned
    /\ \E ord \in IterationOrders(events) :
          /\ ord # order
          /\ generate_all_minimal_regions_v1(k, ord).regions # regions

\* C9: a call with k <= 0 is rejected before the search starts: no seed is
\* dequeued, nothing is added to Discovered or Explored, nothing is returned.
C9_InvalidKRejected ==
    (pc # "build" /\ k <= 0) =>
        /\ candidates = initial_candidates(order)
        /\ discovered_minimal_regions = <<>>
        /\ explored_multisets = <<>>
        /\ pc # "done"

\* C10: for an LTS with no events or no transitions the call returns an empty
\* region list and an empty Explored log, and does not end in an error.
C10_EmptyLTS ==
    (pc # "build" /\ (events = {} \/ transitions = {})) =>
        /\ pc # "error"
        /\ pc = "done" => (regions = <<>> /\ explored_multisets = <<>>)

---------------------------------------------------------------------------
(* Scenarios                                                               *)

\* the LTS S={s1}, E={a}, T={(s1,a,s1)} with s1 = 1, a = 1
SelfLoopScenario ==
    /\ states = {1} /\ events = {1} /\ transitions = {<<1, 1, 1>>}

\* C11: for S={s1}, E={a}, T={(s1,a,s1)}, k=1 the seed list after
\* deduplication is exactly [{s1:1}] and the returned region list is
\* exactly [{s1:1}].
C11_SelfLoopRegions ==
    (Returned /\ SelfLoopScenario /\ k = 1) =>
        /\ remove_duplicates(get_candidates(order)) = <<[s \in {1} |-> 1]>>
        /\ regions = <<[s \in {1} |-> 1]>>

C11_Witness ==
    /\ Returned /\ SelfLoopScenario /\ k = 1
    /\ Len(get_candidates(order)) = 2
    /\ explored_multisets = <<AsDict([s \in {1} |-> 1])>>

\* the LTS S={p,q,r,t}, T={(p,x,q),(p,y,r),(q,z,t),(r,z,t)} with
\* p, q, r, t = 1, 2, 3, 4 and x, y, z = 1, 2, 3, as <<from, event, to>>
SharedJoinTransitions == {<<1, 1, 2>>, <<1, 2, 3>>, <<2, 3, 4>>, <<3, 3, 4>>}

\* the scenario is built with add_transition, one arc per call, in any order
AddSharedJoinTransition ==
    \E st \in SharedJoinTransitions : add_transition(st[2], st[1], st[3])

NextSharedJoin ==
    \/ AddSharedJoinTransition
    \/ Synthesize
    \/ OuterIteration
    \/ InnerIteration
    \/ InnerReturn
    \/ Finish

SharedJoinSpec == Init /\ [][NextSharedJoin]_vars

SharedJoinScenario == transitions = SharedJoinTransitions

\* C12: on the shared-join LTS with k=1 at least two regions are returned,
\* at least one is a pre-region of z and at least one a post-region of z;
\* every returned pre-region of z has z-gradient -1 and every returned
\* post-region of z has z-gradient +1.
C12_SharedJoinRegions ==
    (Returned /\ SharedJoinScenario /\ k = 1) =>
        /\ Len(regions) >= 2
        /\ \E i \in 1..Len(regions) : is_preregion_of_event(3, regions[i])
        /\ \E i \in 1..Len(regions) : is_postregion_of_event(3, regions[i])
        /\ \A i \in 1..Len(regions) :
              is_preregion_of_event(3, regions[i]) =>
                  get_gradient_of_event(3, regions[i]) = {0 - 1}
        /\ \A i \in 1..Len(regions) :
              is_postregion_of_event(3, regions[i]) =>
                  get_gradient_of_event(3, regions[i]) = {1}

C12_Witness ==
    /\ Returned /\ SharedJoinScenario /\ k = 1
    /\ order = <<3, 1, 2>>
    /\ \E i \in 1..Len(regions) :
          is_preregion_of_event(3, regions[i]) /\ regions[i][2] = 1 /\ regions[i][3] = 1

---------------------------------------------------------------------------
(* Direct calls of the multiset operations on dicts with keys among        *)
(* KeyNames and multiplicities 0..MaxK.                                    *)

Multisets == UNION {[S -> 0..MaxK] : S \in SUBSET KeyNames}

\* the record of a call with arguments a, b and the frame it returns with
CallRecord(op, a, b, frame) ==
    [op |-> op, a |-> a, b |-> b, out |-> frame.out,
     multiset_a |-> frame.multiset_a, multiset_b |-> frame.multiset_b]

CallUnion ==
    /\ call.op = "none"
    /\ \E a, b \in Multisets :
          call' = CallRecord("get_union_of_multisets", a, b, get_union_of_multisets(a, b))
    /\ UNCHANGED <<ltsVars, searchVars, netVars, initial_states>>

CallIntersection ==
    /\ call.op = "none"
    /\ \E a, b \in Multisets :
          call' = CallRecord("get_intersection_of_multisets", a, b,
                             get_intersection_of_multisets(a, b))
    /\ UNCHANGED <<ltsVars, searchVars, netVars, initial_states>>

CallDifference ==
    /\ call.op = "none"
    /\ \E a, b \in Multisets :
          call' = CallRecord("get_difference_of_multisets", a, b,
                             get_difference_of_multisets(a, b))
    /\ UNCHANGED <<ltsVars, searchVars, netVars, initial_states>>

CallIsSubset ==
    /\ call.op = "none"
    /\ \E a, b \in Multisets :
          call' = CallRecord("is_subset", a, b,
                             [out |-> BoolValue(is_subset(a, b)),
                              multiset_a |-> a, multiset_b |-> b])
    /\ UNCHANGED <<ltsVars, searchVars, netVars, initial_states>>

NextAlgebra ==
    \/ CallUnion
    \/ CallIntersection
    \/ CallDifference
    \/ CallIsSubset

AlgebraSpec == Init /\ [][NextAlgebra]_vars

AlgebraOps ==
    {"get_union_of_multisets", "get_intersection_of_multisets", "get_difference_of_multisets"}
KeysMismatch == DOMAIN call.a # DOMAIN call.b

C14_SubsetMismatchDistinguishable ==
    (call.op = "is_subset" /\ KeysMismatch) => call.out # BoolValue(FALSE)

---------------------------------------------------------------------------
(* Direct calls of the region functions on a transition system built with  *)
(* add_transition, with markings over its state names.                     *)

StateMultisets == [states -> 0..MaxK]
GValues == (0 - (MaxK + 1))..(MaxK + 1)
RaisedValue == [kind |-> "raise"]
ListValue(l) == [kind |-> "list", value |-> l]

AddTransitionCalls ==
    /\ call.op = "none"
    /\ Cardinality(transitions) < MaxTransitionsLive
    /\ AddTransition

CallIsRegion ==
    /\ call.op = "none"
    /\ \E m \in StateMultisets :
          call' = [op |-> "is_region", m |-> m, multiset |-> m,
                   out |-> BoolValue(is_region(m))]
    /\ UNCHANGED <<ltsVars, searchVars, netVars, initial_states>>

CallGetIllegalEvents ==
    /\ call.op = "none"
    /\ \E m \in StateMultisets :
          call' = [op |-> "get_illegal_events", m |-> m, multiset |-> m,
                   out |-> IF illegal_events_raises(m)
                           THEN RaisedValue
                           ELSE ListValue(get_illegal_events(m))]
    /\ UNCHANGED <<ltsVars, searchVars, netVars, initial_states>>

CallExpansionByG ==
    /\ call.op = "none"
    /\ \E m \in StateMultisets, e \in get_event_names, g \in GValues :
          call' = [op |-> "get_multiset_expansion_on_event_by_g",
                   m |-> m, multiset |-> m, event_name |-> e, g |-> g,
                   out |-> DictValue(get_multiset_expansion_on_event_by_g(g, e, m))]
    /\ UNCHANGED <<ltsVars, searchVars, netVars, initial_states>>

\* multiset_expansion, lines 979-992, on a marking r_hat it has dequeued: the
\* illegal events, the chosen event and the expansion r_2
CallExpansionByGInDriver ==
    /\ call.op = "none"
    /\ \E r_hat \in StateMultisets :
          /\ ~ illegal_events_raises(r_hat)
          /\ get_illegal_events(r_hat) # <<>>
          /\ \E chosen \in {get_event_gradient_for_expansion(get_illegal_events(r_hat))} :
                call' = [op |-> "get_multiset_expansion_on_event_by_G",
                         m |-> r_hat, multiset |-> r_hat,
                         event_name |-> chosen[1], g_e |-> chosen[4],
                         out |-> DictValue(get_multiset_expansion_on_event_by_G(
                                               chosen[4] + 1, chosen[1], r_hat))]
    /\ UNCHANGED <<ltsVars, searchVars, netVars, initial_states>>

NextRegionCalls ==
    \/ AddTransitionCalls
    \/ CallIsRegion
    \/ CallGetIllegalEvents
    \/ CallExpansionByG
    \/ CallExpansionByGInDriver

RegionCallsSpec == Init /\ [][NextRegionCalls]_vars

\* the arcs labelled e and the set of values m(to) - m(from) over them
ArcsOf(e) == {t \in transitions : t[2] = e}
GradientValues(e, m) == {m[t[3]] - m[t[1]] : t \in ArcsOf(e)}
NonUniformEvents(m) == {e \in events : Cardinality(GradientValues(e, m)) >= 2}

\* C15: is_region treats an event that labels no transition as vacuously
\* consistent: is_region(m) is true for every marking m under which all
\* events that have arcs have a uniform gradient (and for every m when E is
\* empty).
C15_IsRegionVacuous ==
    (call.op = "is_region" /\ NonUniformEvents(call.m) = {}) =>
        call.out = BoolValue(TRUE)

\* C18: get_illegal_events(m) returns one tuple (e, g_min, g_max, g_e) for
\* exactly the events whose gradients take at least two values, in ascending
\* event-name order, with g_min and g_max the least and greatest gradient and
\* g_e = floor((g_min + g_max) / 2), so that g_min <= g_e < g_max.
C18_IllegalEvents ==
    call.op = "get_illegal_events" =>
        /\ call.out.kind = "list"
        /\ LET l == call.out.value
           IN  /\ {l[i][1] : i \in 1..Len(l)} = NonUniformEvents(call.m)
               /\ \A i, j \in 1..Len(l) : i < j => l[i][1] < l[j][1]
               /\ \A i \in 1..Len(l) :
                     LET G == GradientValues(l[i][1], call.m)
                     IN  /\ l[i][2] \in G /\ \A x \in G : l[i][2] <= x
                         /\ l[i][3] \in G /\ \A x \in G : x <= l[i][3]
                         /\ 2 * l[i][4] <= l[i][2] + l[i][3]
                         /\ l[i][2] + l[i][3] < 2 * l[i][4] + 2
                         /\ l[i][2] <= l[i][4] /\ l[i][4] < l[i][3]

\* C19: get_multiset_expansion_on_event_by_g(g, e, r) returns a marking r1
\* with domain S and r1(s) = r(s) + max(0, max over arcs (s,e,to) of
\* r(to) - r(s) - g), r1(s) = r(s) where s has no outgoing e-arc; hence
\* r(to) - r1(s) <= g on every arc (s,e,to); r is not modified.
C19_ExpansionByG ==
    call.op = "get_multiset_expansion_on_event_by_g" =>
        LET rr == call.m
            r1 == call.out.value
            out_arcs(s) == {t \in ArcsOf(call.event_name) : t[1] = s}
        IN  /\ call.out.kind = "dict"
            /\ DOMAIN r1 = states
            /\ \A s \in states :
                  /\ out_arcs(s) = {} => r1[s] = rr[s]
                  /\ out_arcs(s) # {} =>
                        /\ r1[s] >= rr[s]
                        /\ \A t \in out_arcs(s) : r1[s] >= rr[t[3]] - call.g
                        /\ \/ r1[s] = rr[s]
                           \/ \E t \in out_arcs(s) : r1[s] = rr[t[3]] - call.g
            /\ \A t \in ArcsOf(call.event_name) : rr[t[3]] - r1[t[1]] <= call.g
            /\ call.multiset = rr

C19_Witness ==
    /\ call.op = "get_multiset_expansion_on_event_by_g"
    /\ call.g < 0
    /\ \E s \in states : call.out.value[s] > call.m[s] + 1
    /\ \E s \in states : call.out.value[s] = call.m[s] /\ call.m[s] > 0
    /\ \E t \in ArcsOf(call.event_name) : t[1] = t[3]

\* C20: when the driver expands r on the chosen event e with midpoint g_e,
\* get_multiset_expansion_on_event_by_G, called with g_e + 1, returns a
\* marking r2 with domain S and r2(s) = r(s) + max(0, max over arcs
\* (from,e,s) of r(from) - r(s) + g_e + 1); hence r2(s) - r(from) >= g_e + 1
\* on every arc (from,e,s).
C20_ExpansionByGInDriver ==
    call.op = "get_multiset_expansion_on_event_by_G" =>
        LET rr == call.m
            r2 == call.out.value
            G == GradientValues(call.event_name, rr)
            in_arcs(s) == {t \in ArcsOf(call.event_name) : t[3] = s}
        IN  /\ call.out.kind = "dict"
            /\ DOMAIN r2 = states
            /\ 2 * call.g_e <= Min(G) + Max(G) /\ Min(G) + Max(G) < 2 * call.g_e + 2
            /\ \A s \in states :
                  /\ r2[s] >= rr[s]
                  /\ \A t \in in_arcs(s) : r2[s] >= rr[t[1]] + call.g_e + 1
                  /\ \/ r2[s] = rr[s]
                     \/ \E t \in in_arcs(s) : r2[s] = rr[t[1]] + call.g_e + 1
            /\ \A t \in ArcsOf(call.event_name) : r2[t[3]] - rr[t[1]] >= call.g_e + 1

C20_Witness ==
    /\ call.op = "get_multiset_expansion_on_event_by_G"
    /\ call.g_e < 0
    /\ \E s \in states : call.out.value[s] > call.m[s]
    /\ \E s \in states : call.out.value[s] = call.m[s] /\ call.m[s] > 0

SameKeys(m) == {c \in Multisets : DOMAIN c = DOMAIN m}

\* C16: on markings over the same state set with values in 0..k, union
\* (pointwise max) and intersection (pointwise min) are each commutative,
\* associative and idempotent, and neither call changes its arguments.
C16_UnionIntersectionLaws ==
    /\ (call.op = "get_union_of_multisets" /\ ~ KeysMismatch) =>
          /\ call.out.kind = "dict"
          /\ \A s \in DOMAIN call.a :
                /\ call.out.value[s] >= call.a[s] /\ call.out.value[s] >= call.b[s]
                /\ call.out.value[s] \in {call.a[s], call.b[s]}
          /\ call.out = get_union_of_multisets(call.b, call.a).out
          /\ \A c \in SameKeys(call.a) :
                get_union_of_multisets(call.out.value, c).out =
                get_union_of_multisets(call.a,
                                       get_union_of_multisets(call.b, c).out.value).out
          /\ call.a = call.b => call.out = DictValue(call.a)
          /\ call.multiset_a = call.a /\ call.multiset_b = call.b
    /\ (call.op = "get_intersection_of_multisets" /\ ~ KeysMismatch) =>
          /\ call.out.kind = "dict"
          /\ \A s \in DOMAIN call.a :
                /\ call.out.value[s] <= call.a[s] /\ call.out.value[s] <= call.b[s]
                /\ call.out.value[s] \in {call.a[s], call.b[s]}
          /\ call.out = get_intersection_of_multisets(call.b, call.a).out
          /\ \A c \in SameKeys(call.a) :
                get_intersection_of_multisets(call.out.value, c).out =
                get_intersection_of_multisets(call.a,
                    get_intersection_of_multisets(call.b, c).out.value).out
          /\ call.a = call.b => call.out = DictValue(call.a)
          /\ call.multiset_a = call.a /\ call.multiset_b = call.b

C16_Witness ==
    /\ call.op = "get_intersection_of_multisets"
    /\ DOMAIN call.a = KeyNames /\ DOMAIN call.b = KeyNames
    /\ call.out.kind = "dict"
    /\ call.out.value # call.a /\ call.out.value # call.b
    /\ \A s \in KeyNames : call.out.value[s] >= 1

---------------------------------------------------------------------------
(* The builder: any sequence of add_transition, add_transitions_batch and  *)
(* set_intial_state calls on a new SATransitionSystem.                     *)

NameInputs == StateNames \cup {EmptyName}
TripleInputs == NameInputs \X EventNames \X NameInputs
BatchInputs == UNION {[1..n -> TripleInputs] : n \in 1..MaxBatch}

AddTransitionsBatch ==
    \E state_transitions \in BatchInputs :
        /\ Cardinality(transitions) + Len(state_transitions) <= MaxTransitions
        /\ add_transitions_batch(state_transitions)

SetInitialState ==
    \E state_name \in NameInputs : set_intial_state(state_name)

NextBuilder ==
    \/ AddTransition
    \/ AddTransitionsBatch
    \/ SetInitialState

BuilderSpec == Init /\ [][NextBuilder]_vars

\* C17: after any sequence of add_transition, add_transitions_batch and
\* set_intial_state calls every label of a stored transition is an event
\* name, every from/to state of a stored transition is a state name and
\* every initial state is a state name.
C17_WellFormedLTS ==
    /\ \A st \in transitions :
          st[2] \in events /\ st[1] \in states /\ st[3] \in states
    /\ initial_states \subseteq states

C17_Witness ==
    /\ Cardinality(transitions) >= 2
    /\ \E e \in events : ArcsOf(e) = {}
    /\ initial_states # {} /\ initial_states # states

---------------------------------------------------------------------------
(* One expansion step of multiset_expansion, lines 979-992, called on a    *)
(* marking of a transition system of at most MaxTransitionsStep            *)
(* transitions: two events can be illegal at once.                         *)

AddTransitionStep ==
    /\ call.op = "none"
    /\ Cardinality(transitions) < MaxTransitionsStep
    /\ \E e \in EventNames, f \in StateNames \cup {EmptyName}, t \in StateNames \cup {EmptyName} :
          add_transition(e, f, t)

\* the illegal events of r_hat, the chosen event and midpoint, and r_1, r_2
CallExpansionStep ==
    /\ call.op = "none"
    /\ \E r_hat \in StateMultisets :
          /\ ~ illegal_events_raises(r_hat)
          /\ get_illegal_events(r_hat) # <<>>
          /\ \E chosen \in {get_event_gradient_for_expansion(get_illegal_events(r_hat))} :
                call' = [op |-> "multiset_expansion", m |-> r_hat,
                         event_name |-> chosen[1], g_e |-> chosen[4],
                         r_1 |-> get_multiset_expansion_on_event_by_g(
                                     chosen[4], chosen[1], r_hat),
                         r_2 |-> get_multiset_expansion_on_event_by_G(
                                     chosen[4] + 1, chosen[1], r_hat)]
    /\ UNCHANGED <<ltsVars, searchVars, netVars, initial_states>>

NextExpansionStep ==
    \/ AddTransitionStep
    \/ CallExpansionStep

ExpansionStepSpec == Init /\ [][NextExpansionStep]_vars

\* the floor of the mean of the smallest and the largest gradient of e
Midpoint(e, m) ==
    CHOOSE g \in (0 - MaxK)..MaxK :
        /\ 2 * g <= Min(GradientValues(e, m)) + Max(GradientValues(e, m))
        /\ Min(GradientValues(e, m)) + Max(GradientValues(e, m)) < 2 * g + 2

\* C21: the event chosen for expansion is an illegal event of the marking
\* whose |g_e| is maximal among the illegal events, and among the events
\* tied on |g_e| it is the one of smallest name.
C21_ChosenEvent ==
    call.op = "multiset_expansion" =>
        /\ call.event_name \in NonUniformEvents(call.m)
        /\ call.g_e = Midpoint(call.event_name, call.m)
        /\ \A e \in NonUniformEvents(call.m) :
              /\ Abs(Midpoint(e, call.m)) <= Abs(call.g_e)
              /\ Abs(Midpoint(e, call.m)) = Abs(call.g_e) => call.event_name <= e

C21_Witness ==
    /\ call.op = "multiset_expansion"
    /\ \E e \in NonUniformEvents(call.m) :
          /\ e # call.event_name
          /\ Midpoint(e, call.m) = 0 - call.g_e
          /\ call.g_e < 0

---------------------------------------------------------------------------
\* the sum of the values of a marking, and a list without its i-th element
RECURSIVE TotalOver(_, _)
TotalOver(m, S) ==
    IF S = {} THEN 0
    ELSE LET s == CHOOSE x \in S : TRUE IN m[s] + TotalOver(m, S \ {s})
Total(m) == TotalOver(m, DOMAIN m)
Without(lst, i) == SubSeq(lst, 1, i - 1) \o SubSeq(lst, i + 1, Len(lst))
OuterStep == pc = "outer" /\ pc' # "done"

\* C22: every iteration of the outer loop removes exactly one marking from
\* Candidates, the one of smallest value sum and, among those of equal
\* smallest sum, of lowest index; no other step after seeding changes
\* Candidates, so none is ever added.
C22_Dequeue ==
    [][/\ OuterStep =>
            \E idx \in 1..Len(candidates) :
                /\ candidates' = Without(candidates, idx)
                /\ \A j \in 1..Len(candidates) :
                      Total(candidates[idx]) <= Total(candidates[j])
                /\ \A j \in 1..(idx - 1) :
                      Total(candidates[idx]) < Total(candidates[j])
       /\ (pc # "build" /\ ~ OuterStep) => candidates' = candidates]_vars

C22_Witness ==
    /\ pc = "outer"
    /\ Len(candidates) = 1
    /\ \E i, j \in 1..Len(initial_candidates(order)) :
          /\ i < j
          /\ Total(initial_candidates(order)[i]) = Total(initial_candidates(order)[j])
          /\ \A h \in 1..Len(initial_candidates(order)) :
                Total(initial_candidates(order)[i]) <= Total(initial_candidates(order)[h])
          /\ candidates[1] # initial_candidates(order)[i]
          /\ candidates[1] # initial_candidates(order)[j]

---------------------------------------------------------------------------
\* the indicator markings of the sources and of the targets of the e-arcs,
\* and the state right after seeding
Excitation(e) == [s \in states |-> IF \E t \in ArcsOf(e) : t[1] = s THEN 1 ELSE 0]
Switching(e) == [s \in states |-> IF \E t \in ArcsOf(e) : t[3] = s THEN 1 ELSE 0]
Seeds == {Excitation(e) : e \in events} \cup {Switching(e) : e \in events}
Seeded == pc = "outer" /\ explored_multisets = <<>>

\* C23: the initial Candidates list has no two equal markings and no marking
\* that pointwise contains a different seed, and every excitation or
\* switching indicator of every event pointwise contains a marking of it.
C23_InitialCandidates ==
    Seeded =>
        /\ \A i, j \in 1..Len(candidates) : candidates[i] = candidates[j] => i = j
        /\ \A i \in 1..Len(candidates) :
              \A seed \in Seeds : Leq(seed, candidates[i]) => seed = candidates[i]
        /\ \A seed \in Seeds : \E i \in 1..Len(candidates) : Leq(candidates[i], seed)

C23_Witness ==
    /\ Seeded
    /\ Len(candidates) >= 2
    /\ Cardinality(Seeds) < 2 * Cardinality(events)
    /\ \E seed \in Seeds : ~ InList(seed, candidates)

---------------------------------------------------------------------------
\* C24: a marking is expanded (its illegal event selected, r1 and r2
\* computed) only in a step of the inner loop that records it in Explored as
\* a value list; at that step it is a marking of the work list that was not
\* yet in Explored, and Explored only grows during a run, so no marking is
\* expanded twice in one run, whichever seed or parent it is reached from.
C24_NoReExpansion ==
    [][/\ (pc = "inner" /\ explored_multisets' # explored_multisets) =>
            /\ explored_multisets'[Len(explored_multisets) + 1]
                  \in {AsList(r[i]) : i \in 1..Len(r)}
            /\ ~ InList(explored_multisets'[Len(explored_multisets) + 1], explored_multisets)
       /\ pc # "build" =>
            /\ Len(explored_multisets') >= Len(explored_multisets)
            /\ explored_multisets = SubSeq(explored_multisets', 1, Len(explored_multisets))]_vars

\* a marking of the work list that has already been expanded or classified
C24_Witness ==
    /\ pc = "inner"
    /\ \E i \in 1..Len(r) : InList(AsList(r[i]), explored_multisets)

---------------------------------------------------------------------------
\* C25: a call of add_transition that does not add the transition leaves the
\* state set, the event set and the transition set as they were.
C25_AddTransitionAtomic ==
    [][(pc = "build" /\ pc' = "build" /\ transitions' = transitions) =>
            (states' = states /\ events' = events)]_vars

---------------------------------------------------------------------------
\* C26: for a non-region marking r and the illegal event and midpoint chosen
\* for it, both expansions contain r pointwise and have a strictly greater
\* value sum than r.
C26_StrictProgress ==
    call.op = "multiset_expansion" =>
        /\ Leq(call.m, call.r_1)
        /\ Leq(call.m, call.r_2)
        /\ Total(call.r_1) > Total(call.m)
        /\ Total(call.r_2) > Total(call.m)

C26_Witness ==
    /\ call.op = "multiset_expansion"
    /\ call.g_e < 0
    /\ call.r_1 # call.r_2
    /\ Total(call.r_1) = Total(call.m) + 1
    /\ Total(call.r_2) >= Total(call.m) + 2

---------------------------------------------------------------------------
\* C27: at every point of a run the Discovered list holds no two equal
\* markings.
C27_DiscoveredDistinct ==
    \A i, j \in 1..Len(discovered_minimal_regions) :
        discovered_minimal_regions[i] = discovered_minimal_regions[j] => i = j

\* a region accepted as a seed, recorded in Explored as a dict, next to a
\* region found by expansion, recorded as a value list
C27_Witness ==
    /\ pc \in {"outer", "inner"}
    /\ \E i, j \in 1..Len(discovered_minimal_regions) :
          /\ i # j
          /\ InList(AsDict(discovered_minimal_regions[i]), explored_multisets)
          /\ ~ InList(AsList(discovered_minimal_regions[i]), explored_multisets)
          /\ InList(AsList(discovered_minimal_regions[j]), explored_multisets)

---------------------------------------------------------------------------
(* Place, Transition and StructuralAdaptivePN.  A Place object is an entry *)
(* of heap; places and the lists of a Transition hold references to it.    *)

PlaceIds == 1..NumPlaces
TransitionIds == 1..NumNetTransitions
TokenValues == 0..MaxTokens
IntValue(n) == [kind |-> "int", value |-> n]
TokenArguments == {NoneValue} \cup {IntValue(n) : n \in TokenValues}
PlaceIdLists == UNION {[1..n -> PlaceIds] : n \in 0..MaxArcs}

\* Place(identifier, tokens)
Place(identifier, tokens) == [identifier |-> identifier, tokens |-> tokens]

\* place.add_token() on the Place at ref of heap h
add_token(h, ref) == [h EXCEPT ![ref].tokens = @ + 1]

\* place.remove_token() on the Place at ref of heap h: the heap afterwards
\* and whether ValueError was raised
remove_token(h, ref) ==
    IF h[ref].tokens >= 1
    THEN [heap |-> [h EXCEPT ![ref].tokens = @ - 1], raised |-> FALSE]
    ELSE [heap |-> h, raised |-> TRUE]

is_enabled(h, transition) ==
    \A i \in 1..Len(transition.input_places) : h[transition.input_places[i]].tokens > 0

\* "for place in self.input_places: place.remove_token()"
RECURSIVE remove_tokens_loop(_, _)
remove_tokens_loop(h, input_places) ==
    IF input_places = <<>>
    THEN [heap |-> h, raised |-> FALSE]
    ELSE LET f == remove_token(h, Head(input_places))
         IN  IF f.raised THEN f ELSE remove_tokens_loop(f.heap, Tail(input_places))

\* "for place in self.output_places: place.add_token()"
RECURSIVE add_tokens_loop(_, _)
add_tokens_loop(h, output_places) ==
    IF output_places = <<>>
    THEN h
    ELSE add_tokens_loop(add_token(h, Head(output_places)), Tail(output_places))

\* transition.fire() on heap h: the heap afterwards and whether ValueError
\* was raised
fire(h, transition) ==
    IF is_enabled(h, transition)
    THEN LET f == remove_tokens_loop(h, transition.input_places)
         IN  IF f.raised
             THEN f
             ELSE [heap |-> add_tokens_loop(f.heap, transition.output_places),
                   raised |-> FALSE]
    ELSE [heap |-> h, raised |-> TRUE]

\* StructuralAdaptivePN.add_place(place_id, tokens)
add_place(place_id, tokens) ==
    /\ IF place_id \notin DOMAIN places
       THEN /\ heap' = Append(heap, Place(place_id, tokens))
            /\ places' = [p \in DOMAIN places \cup {place_id} |->
                             IF p = place_id THEN Len(heap) + 1 ELSE places[p]]
       ELSE UNCHANGED <<heap, places>>
    /\ call' = [op |-> "add_place", out |-> "return"]
    /\ UNCHANGED pn_transitions
    /\ UNCHANGED <<ltsVars, searchVars, initial_states>>

\* StructuralAdaptivePN.add_transition(transition_id, input_place_ids,
\* output_place_ids): self.places[pid] raises KeyError on an unknown pid
pn_add_transition(transition_id, input_place_ids, output_place_ids) ==
    /\ IF \A i \in 1..Len(input_place_ids) : input_place_ids[i] \in DOMAIN places
       THEN IF \A i \in 1..Len(output_place_ids) : output_place_ids[i] \in DOMAIN places
            THEN /\ pn_transitions' =
                       [t \in DOMAIN pn_transitions \cup {transition_id} |->
                           IF t = transition_id
                           THEN [identifier |-> transition_id,
                                 input_places |-> [i \in 1..Len(input_place_ids) |->
                                                      places[input_place_ids[i]]],
                                 output_places |-> [i \in 1..Len(output_place_ids) |->
                                                       places[output_place_ids[i]]]]
                           ELSE pn_transitions[t]]
                 /\ call' = [op |-> "add_transition", out |-> "return"]
            ELSE /\ UNCHANGED pn_transitions
                 /\ call' = [op |-> "add_transition", out |-> "raise"]
       ELSE /\ UNCHANGED pn_transitions
            /\ call' = [op |-> "add_transition", out |-> "raise"]
    /\ UNCHANGED <<heap, places>>
    /\ UNCHANGED <<ltsVars, searchVars, initial_states>>

\* StructuralAdaptivePN.modify_place(place_id, tokens)
modify_place(place_id, tokens) ==
    /\ IF place_id \in DOMAIN places
       THEN /\ heap' = IF tokens # NoneValue
                       THEN [heap EXCEPT ![places[place_id]].tokens = tokens.value]
                       ELSE heap
            /\ call' = [op |-> "modify_place", out |-> "return"]
       ELSE /\ UNCHANGED heap
            /\ call' = [op |-> "modify_place", out |-> "raise"]
    /\ UNCHANGED <<places, pn_transitions>>
    /\ UNCHANGED <<ltsVars, searchVars, initial_states>>

\* StructuralAdaptivePN.remove_place(place_id)
remove_place(place_id) ==
    /\ IF place_id \in DOMAIN places
       THEN /\ places' = [p \in DOMAIN places \ {place_id} |-> places[p]]
            /\ call' = [op |-> "remove_place", out |-> "return"]
       ELSE /\ UNCHANGED places
            /\ call' = [op |-> "remove_place", out |-> "raise"]
    /\ UNCHANGED <<heap, pn_transitions>>
    /\ UNCHANGED <<ltsVars, searchVars, initial_states>>

AddPlace ==
    /\ Len(heap) < MaxPlaceObjects
    /\ \E place_id \in PlaceIds, tokens \in TokenValues : add_place(place_id, tokens)

AddNetTransition ==
    \E transition_id \in TransitionIds, input_place_ids \in PlaceIdLists,
       output_place_ids \in PlaceIdLists :
        pn_add_transition(transition_id, input_place_ids, output_place_ids)

ModifyPlace ==
    \E place_id \in PlaceIds, tokens \in TokenArguments : modify_place(place_id, tokens)

RemovePlace ==
    \E place_id \in PlaceIds : remove_place(place_id)

\* self.transitions[transition_id].fire(); token counts stay within MaxTokens
Fire ==
    \E transition_id \in DOMAIN pn_transitions :
        \E f \in {fire(heap, pn_transitions[transition_id])} :
            /\ \A ref \in 1..Len(heap) : f.heap[ref].tokens <= MaxTokens
            /\ heap' = f.heap
            /\ call' = [op |-> "fire", transition |-> transition_id,
                        out |-> IF f.raised THEN "raise" ELSE "return"]
            /\ UNCHANGED <<places, pn_transitions>>
            /\ UNCHANGED <<ltsVars, searchVars, initial_states>>

NextNet ==
    \/ AddPlace
    \/ AddNetTransition
    \/ ModifyPlace
    \/ RemovePlace
    \/ Fire

NetSpec == Init /\ [][NextNet]_vars

\* the number of entries of the list lst that are the reference ref
Occurrences(lst, ref) == Cardinality({i \in 1..Len(lst) : lst[i] = ref})

\* C28: fire either removes one token per input-place entry and adds one per
\* output-place entry, or raises ValueError with every token count
\* unchanged; no token count is negative afterwards.
C28_FireAllOrNothing ==
    [][call'.op = "fire" =>
          /\ \/ /\ call'.out = "return"
                /\ \A ref \in 1..Len(heap) :
                      heap'[ref].tokens =
                          heap[ref].tokens
                          - Occurrences(pn_transitions[call'.transition].input_places, ref)
                          + Occurrences(pn_transitions[call'.transition].output_places, ref)
             \/ /\ call'.out = "raise"
                /\ heap' = heap
          /\ \A ref \in 1..Len(heap') : heap'[ref].tokens >= 0]_vars

\* C29: every Place in the input_places or output_places of a stored
\* transition is the Place registered in places under its identifier.
C29_ReferentialIntegrity ==
    \A t \in DOMAIN pn_transitions :
        \A lst \in {pn_transitions[t].input_places, pn_transitions[t].output_places} :
            \A i \in 1..Len(lst) :
                /\ heap[lst[i]].identifier \in DOMAIN places
                /\ places[heap[lst[i]].identifier] = lst[i]

---------------------------------------------------------------------------
(* SATransitionSystem.create_from_ts_dict and generate_ts_dict             *)

StrValue(s) == [kind |-> "str", value |-> s]
SetValue(S) == [kind |-> "set", value |-> S]

\* generate_ts_dict(): the three sets and the set self.initial_states
generate_ts_dict ==
    [events |-> get_event_names,
     states |-> get_state_names,
     state_transitions |-> get_all_state_transitions,
     initial_states |-> SetValue(initial_states)]

\* the value create_from_ts_dict(ts_dict) returns; state_transitions is given
\* in the order in which add_transitions_batch iterates over it.  temp is a
\* new SATransitionSystem; "state_name in self.get_state_names()" of
\* set_intial_state is False for an argument that is a set
create_from_ts_dict(ts_dict) ==
    LET temp == batch_loop([states |-> {}, events |-> {}, transitions |-> {}],
                           ts_dict.state_transitions)
    IN  IF temp.events # ts_dict.events
        THEN FALSE
        ELSE IF temp.states # ts_dict.states
             THEN FALSE
             ELSE IF ~ (ts_dict.initial_states.kind = "str"
                        /\ ts_dict.initial_states.value \in temp.states)
                  THEN FALSE
                  ELSE TRUE

TransitionLists == UNION {[1..n -> TripleInputs] : n \in 0..MaxDictTransitions}
TsDicts ==
    [events : SUBSET EventNames,
     states : SUBSET StateNames,
     state_transitions : TransitionLists,
     initial_states : {StrValue(n) : n \in NameInputs}
                         \cup {SetValue({})}]

AddTransitionDict ==
    /\ call.op = "none"
    /\ Cardinality(transitions) < MaxDictTransitions
    /\ \E e \in EventNames, f \in NameInputs, t \in NameInputs : add_transition(e, f, t)

SetInitialStateDict ==
    /\ call.op = "none"
    /\ \E state_name \in NameInputs : set_intial_state(state_name)

\* self.create_from_ts_dict(ts_dict): "self = temp" rebinds the local name
\* only, the receiver keeps its states, events and transitions
CallCreateFromTsDict ==
    /\ call.op = "none"
    /\ pc = "build"
    /\ \E ts_dict \in TsDicts :
          call' = [op |-> "create_from_ts_dict", ts_dict |-> ts_dict, generated |-> FALSE,
                   out |-> BoolValue(create_from_ts_dict(ts_dict))]
    /\ UNCHANGED <<ltsVars, searchVars, netVars, initial_states>>

\* self.create_from_ts_dict(self.generate_ts_dict()): the batch iterates over
\* the set of transitions in some order
CallCreateFromGenerated ==
    /\ call.op = "none"
    /\ pc = "build"
    /\ \E ord \in IterationOrders(generate_ts_dict.state_transitions) :
          \E ts_dict \in {[generate_ts_dict EXCEPT !.state_transitions = ord]} :
              call' = [op |-> "create_from_ts_dict", ts_dict |-> ts_dict, generated |-> TRUE,
                       out |-> BoolValue(create_from_ts_dict(ts_dict))]
    /\ UNCHANGED <<ltsVars, searchVars, netVars, initial_states>>

NextDict ==
    \/ AddTransitionDict
    \/ SetInitialStateDict
    \/ CallCreateFromTsDict
    \/ CallCreateFromGenerated

DictSpec == Init /\ [][NextDict]_vars

\* C30: whenever create_from_ts_dict(d) returns True, the receiver's state
\* names, event names and state transitions afterwards equal d["states"],
\* d["events"] and d["state_transitions"]; called on a dict that
\* generate_ts_dict produced, it returns True.
C30_CreateLoadsReceiver ==
    call.op = "create_from_ts_dict" =>
        /\ call.out = BoolValue(TRUE) =>
              /\ states = call.ts_dict.states
              /\ events = call.ts_dict.events
              /\ transitions = {call.ts_dict.state_transitions[i] :
                                   i \in 1..Len(call.ts_dict.state_transitions)}
        /\ call.generated => call.out = BoolValue(TRUE)

====
